---- MODULE Spec2Model ----
(***************************************************************************)
(* The resume analyzer of src/app.py: a Streamlit script that is run again *)
(* from its first line on every interaction of a browser session.  A run   *)
(* is a sequence of blocking calls to four remote collaborators: the       *)
(* authentication service, the "resumes" storage bucket, the "filehashes"  *)
(* table and the completion service.                                       *)
(*                                                                         *)
(* State: the bucket (blobs), the table (filehashes, a bag of rows: the    *)
(* script never declares a uniqueness constraint), each session's          *)
(* st.session_state["user"], each session's position in the script (pc)    *)
(* and the script's local variables of the run in progress (run).          *)
(*                                                                         *)
(* Every remote call either answers or raises; where the script wraps the  *)
(* call in try/except the exception becomes an st.error message, where it  *)
(* does not the exception leaves the script (the tag "fault").             *)
(***************************************************************************)
EXTENDS Integers, FiniteSets, Bags, TLC

\* ------------------------------------------------------------- bounds
\* File names an owner may upload under.
NumNames == 1

\* Two owners (e-mail addresses) and two browser sessions: the smallest
\* population in which one owner meets another owner's data and two sessions
\* of one owner meet each other.  Two file contents: content 1 is a PDF with
\* text under the size ceiling, content 2 an image-only scan over it.
Owners == {1, 2}
Sessions == {1, 2}
Names == 1..NumNames
Contents == {1, 2}

\* ------------------------------------------------------ program values
MAX_FILE_SIZE == 10 * 1024 * 1024

\* st.session_state["user"] = None
NoUser == 0
\* no object under a path of the bucket
NoBlob == 0
\* no name selected (the sidebar shows "No resumes uploaded yet.")
NoName == 0
\* st.file_uploader returned None
NoFile == [name |-> 0, content |-> 0]
\* the run has not reached the text area / the extraction
NoText == "<unset>"

\* The byte length of an uploaded content: content c is a PDF of 6c MiB, so
\* content 1 is under the ceiling and every other content is over it.
FileSize(content) == content * 6 * 1024 * 1024

\* hash_file: SHA-256 of the bytes, taken as collision-free: equal digests
\* exactly for equal contents.  The digest is a value of its own kind.
hash_file(file_bytes) == <<"sha256", file_bytes>>

\* extract_text_from_pdf: the pages' text joined by newlines, pages without
\* text left out.  Contents with an odd number carry text, the others are
\* image-only scans and give the empty string.
extract_text_from_pdf(file_bytes) ==
    IF file_bytes % 2 = 1 THEN "resume text" ELSE ""

\* What a user may have typed into "Paste Job Description".
JobDescriptions == {"", "job description"}

\* f"resumes/{email}/{file_name}"
file_path(email, file_name) == <<email, file_name>>
Paths == Owners \X Names

\* supabase.storage.from_("resumes").list(f"resumes/{email}/"): the names
\* stored under the owner's prefix.
StorageList(store, email) ==
    {n \in Names : store[file_path(email, n)] # NoBlob}

\* supabase.storage.from_("resumes").remove([file_path]): removing a path
\* that holds nothing is answered like any other remove.
StorageRemove(store, path) == [store EXCEPT ![path] = NoBlob]

\* Whether the storage answers a remove of this path without raising: it
\* does for every path, stored or not.
RemoveAccepts(store, path) == TRUE

\* supabase.storage.from_("resumes").upload(file_path, file_content)
StorageUpload(store, path, file_content) ==
    [store EXCEPT ![path] = file_content]

\* The row store_file_hash_in_database builds.
HashRow(file_name, file_hash, email) ==
    [file_name |-> file_name, file_hash |-> file_hash, email |-> email]

\* supabase.table("filehashes").insert(data).execute()
TableInsert(table, data) == table (+) SetToBag({data})

\* The filter of the delete: .eq("file_name", file_name).eq("email", email)
DeleteFilter(row, file_name, email) ==
    row.file_name = file_name /\ row.email = email

\* A delete query that is built and never executed.
TableDeleteNotExecuted(table, file_name, email) == table

\* supabase.table("filehashes").delete().eq(...).eq(...).execute()
TableDelete(table, file_name, email) ==
    LET keep == {r \in DOMAIN table : ~DeleteFilter(r, file_name, email)}
    IN  [r \in keep |-> table[r]]

\* Rows the delete filter matches (the response the script ignores).
MatchingRows(table, file_name, email) ==
    {r \in DOMAIN table : DeleteFilter(r, file_name, email)}

\* Rows of the table (with their multiplicity) that carry a digest.
HashCount(table, file_hash) ==
    BagCardinality([r \in {x \in DOMAIN table : x.file_hash = file_hash} |-> table[r]])

\* A duplicate check that selects the rows with another digest (.neq).
file_hash_exists_other_digest(table, file_hash) ==
    \E r \in DOMAIN table : r.file_hash # file_hash

\* A duplicate check that asks for more than one row.
file_hash_exists_more_than_one(table, file_hash) ==
    HashCount(table, file_hash) > 1

\* file_hash_exists: select("file_hash").eq("file_hash", file_hash), then
\* len(response.data) > 0.  The query filters on the digest alone.
file_hash_exists(table, file_hash) ==
    \E r \in DOMAIN table : r.file_hash = file_hash

\* A guard that is content with either text.
AnalyzeGuardEither(resume_text, job_description, clicked) ==
    (resume_text # "" \/ job_description # "") /\ clicked

\* The condition of line 219 that guards analyze_resume.
AnalyzeGuard(resume_text, job_description, clicked) ==
    resume_text # "" /\ job_description # "" /\ clicked

\* ---------------------------------------------------------------- state
VARIABLES
    blobs,        \* the bucket: path -> content, NoBlob where nothing is stored
    filehashes,   \* the table: a bag of rows (file_name, file_hash, email)
    user,         \* per session: st.session_state["user"]
    pc,           \* per session: where its script run stands
    run           \* per session: the locals and the page of the current run

vars == <<blobs, filehashes, user, pc, run>>

\* The locals of a run that has just begun, and of a session between runs.
\*   selected_file   the selectbox's value
\*   uploaded_file   the file_uploader's value once the script has read it
\*   resume_text     extract_text_from_pdf's result
\*   job_description the text area's value
\*   prompts         the prompts handed to model.generate_content
\*   msgs            what the page shows
\*   removed         objects the storage remove found, -1 before the call
\*   deleted         rows the table delete matched, -1 before the call
Blank ==
    [selected_file |-> NoName, uploaded_file |-> NoFile, resume_text |-> NoText,
     job_description |-> NoText, prompts |-> {}, msgs |-> {},
     removed |-> -1, deleted |-> -1]

Init ==
    /\ blobs = [p \in Paths |-> NoBlob]
    /\ filehashes = EmptyBag
    /\ user = [s \in Sessions |-> NoUser]
    /\ pc = [s \in Sessions |-> "idle"]
    /\ run = [s \in Sessions |-> Blank]

\* Sessions inside a script run (a page that is shown and not yet left counts).
Running == {s \in Sessions : pc[s] # "idle"}

\* A session may begin a run while fewer than limit sessions are inside one.
CanStart(s, limit) == pc[s] = "idle" /\ Cardinality(Running) < limit

Goto(s, label) == pc' = [pc EXCEPT ![s] = label]

\* The run goes on to label with its locals set to page.
Continue(s, page, label) ==
    /\ run' = [run EXCEPT ![s] = page]
    /\ Goto(s, label)

\* The run ends (the last line, st.rerun() or an exception that leaves the
\* script) and the page is shown; the selectbox's and the uploader's values
\* are read by no later line and are dropped.
Render(s, page) ==
    Continue(s, [page EXCEPT !.selected_file = NoName, !.uploaded_file = NoFile],
             "rendered")

\* st.success / st.warning / st.error, and an exception nobody catches.
Show(page, tag) == [page EXCEPT !.msgs = @ \cup {tag}]

\* A remote call of the run raised: the page shows an st.error message
\* ("error") or the uncaught exception ("fault").
Raised(page) == "error" \in page.msgs \/ "fault" \in page.msgs

Files == [name : Names, content : Contents]

\* ------------------------------------------------------------- sidebar

\* login_user, then the rest of the script: a successful sign-in sets
\* session_state["user"] and the same run goes on into the main app.
Login(s, limit) ==
    /\ CanStart(s, limit)
    /\ user[s] = NoUser
    /\ \E email \in Owners, response \in {"user", "invalid", "raise"} :
          IF response = "user"
          THEN /\ user' = [user EXCEPT ![s] = email]
               /\ Goto(s, "list")
          ELSE UNCHANGED <<user, pc>>
    /\ UNCHANGED <<blobs, filehashes, run>>

\* sign_up_user: every outcome is a sidebar message; nobody is logged in.
SignUp(s) ==
    /\ pc[s] = "idle"
    /\ user[s] = NoUser
    /\ UNCHANGED vars

\* The Logout button: the user is cleared and the main app is skipped.
Logout(s) ==
    /\ pc[s] = "idle"
    /\ user[s] # NoUser
    /\ user' = [user EXCEPT ![s] = NoUser]
    /\ UNCHANGED <<blobs, filehashes, pc, run>>

\* Any other interaction of a logged-in session runs the script again.
Rerun(s, limit) ==
    /\ CanStart(s, limit)
    /\ user[s] # NoUser
    /\ Goto(s, "list")
    /\ UNCHANGED <<blobs, filehashes, user, run>>

\* ------------------------------------------------------------ main app

\* get_uploaded_files, the selectbox and the "Delete File" button.  A list
\* call that raises is caught and gives the empty list.
GetUploadedFiles(s) ==
    /\ pc[s] = "list"
    /\ \E answers \in BOOLEAN, delete_clicked \in BOOLEAN :
          LET uploaded_files ==
                  IF answers THEN StorageList(blobs, user[s]) ELSE {}
              page == IF answers THEN run[s] ELSE Show(run[s], "error")
          IN  IF uploaded_files = {}
              THEN Continue(s, page, "upload")
              ELSE \E selected_file \in uploaded_files :
                      Continue(s, [page EXCEPT !.selected_file = selected_file],
                               IF delete_clicked THEN "remove" ELSE "upload")
    /\ UNCHANGED <<blobs, filehashes, user>>

\* delete_file_from_supabase, first call: the storage remove.  An exception
\* skips the table delete; st.rerun() ends the run either way.
RemoveBlob(s) ==
    /\ pc[s] = "remove"
    /\ LET path == file_path(user[s], run[s].selected_file)
       IN  \E answers \in BOOLEAN :
              IF answers /\ RemoveAccepts(blobs, path)
              THEN /\ blobs' = StorageRemove(blobs, path)
                   /\ Continue(s, [run[s] EXCEPT !.removed =
                                      IF blobs[path] # NoBlob THEN 1 ELSE 0],
                               "table_delete")
              ELSE /\ Render(s, Show(run[s], "error"))
                   /\ UNCHANGED blobs
    /\ UNCHANGED <<filehashes, user>>

\* delete_file_from_supabase, second call: the table delete, then st.success.
DeleteRows(s) ==
    /\ pc[s] = "table_delete"
    /\ LET file_name == run[s].selected_file
           email == user[s]
       IN  \E answers \in BOOLEAN :
              IF answers
              THEN /\ filehashes' = TableDelete(filehashes, file_name, email)
                   /\ Render(s, [Show(run[s], "deleted") EXCEPT !.deleted =
                                Cardinality(MatchingRows(filehashes, file_name, email))])
              ELSE /\ Render(s, Show(run[s], "error"))
                   /\ UNCHANGED filehashes
    /\ UNCHANGED <<blobs, user>>

\* Lines 191-202: the file uploader and the duplicate check.  The select of
\* file_hash_exists is not inside a try: an exception leaves the script.
CheckDuplicate(s) ==
    /\ pc[s] = "upload"
    /\ \E uploaded_file \in Files \cup {NoFile}, checked \in BOOLEAN,
          answers \in BOOLEAN :
          LET page == [run[s] EXCEPT !.uploaded_file = uploaded_file]
              file_hash == hash_file(uploaded_file.content)
          IN  IF uploaded_file = NoFile
              THEN Continue(s, run[s], "analysis")
              ELSE IF ~answers
              THEN Render(s, Show(page, "fault"))
              ELSE IF file_hash_exists(filehashes, file_hash)
              THEN Continue(s, Show(page, "duplicate"), "analysis")
              ELSE Continue(s, page, IF checked THEN "file_exists" ELSE "analysis")
    /\ UNCHANGED <<blobs, filehashes, user>>

\* upload_file_to_supabase up to the branch: file.read() gives the bytes
\* getvalue() gave, and file_exists_in_supabase lists the owner's names; a
\* list call that raises is caught there and answers False.
FileExistsInSupabase(s) ==
    /\ pc[s] = "file_exists"
    /\ \E answers \in BOOLEAN :
          LET exists == answers /\
                  run[s].uploaded_file.name \in StorageList(blobs, user[s])
          IN  IF exists
              THEN Continue(s, Show(run[s], "exists"), "insert")
              ELSE Continue(s, IF answers THEN run[s] ELSE Show(run[s], "error"),
                            "storage_upload")
    /\ UNCHANGED <<blobs, filehashes, user>>

\* The storage upload.  The call is made without upsert, so the bucket
\* refuses a path that already holds an object; that and any other failure
\* raise into upload_file_to_supabase's except, which skips the insert.
UploadBlob(s) ==
    /\ pc[s] = "storage_upload"
    /\ LET f == run[s].uploaded_file
           path == file_path(user[s], f.name)
       IN  \E answers \in BOOLEAN :
              IF answers /\ blobs[path] = NoBlob
              THEN /\ blobs' = StorageUpload(blobs, path, f.content)
                   /\ Continue(s, Show(run[s], "uploaded"), "insert")
              ELSE /\ Render(s, Show(run[s], "error"))
                   /\ UNCHANGED blobs
    /\ UNCHANGED <<filehashes, user>>

\* store_file_hash_in_database, called on both branches of the upload;
\* st.rerun() ends the run.
StoreFileHash(s) ==
    /\ pc[s] = "insert"
    /\ LET f == run[s].uploaded_file
           data == HashRow(f.name, hash_file(f.content), user[s])
       IN  \E answers \in BOOLEAN :
              IF answers
              THEN /\ filehashes' = TableInsert(filehashes, data)
                   /\ Render(s, Show(run[s], "stored"))
              ELSE /\ Render(s, Show(run[s], "error"))
                   /\ UNCHANGED filehashes
    /\ UNCHANGED <<blobs, user>>

\* Lines 205-223: download of the selected file, text extraction, the job
\* description and the "Analyze Resume" button.  Neither the download nor
\* generate_content is inside a try.  The stored contents are non-empty
\* PDFs that pdfplumber can open.
AnalyzeSection(s) ==
    /\ pc[s] = "analysis"
    /\ LET path == file_path(user[s], run[s].selected_file)
       IN  IF run[s].selected_file = NoName
           THEN Render(s, run[s])
           ELSE \E answers \in BOOLEAN :
                  IF ~answers \/ blobs[path] = NoBlob
                  THEN Render(s, Show(run[s], "fault"))
                  ELSE \E job_description \in JobDescriptions,
                          clicked \in BOOLEAN, generated \in BOOLEAN :
                         LET resume_text == extract_text_from_pdf(blobs[path])
                             page == [run[s] EXCEPT
                                         !.resume_text = resume_text,
                                         !.job_description = job_description]
                             prompt == [resume |-> resume_text,
                                        job |-> job_description]
                         IN  IF AnalyzeGuard(resume_text, job_description, clicked)
                             THEN Render(s,
                                     [Show(page, IF generated THEN "feedback" ELSE "fault")
                                        EXCEPT !.prompts = @ \cup {prompt}])
                             ELSE Render(s, page)
    /\ UNCHANGED <<blobs, filehashes, user>>

\* The page has been shown; the next interaction starts from blank locals.
Finish(s) ==
    /\ pc[s] = "rendered"
    /\ Continue(s, Blank, "idle")
    /\ UNCHANGED <<blobs, filehashes, user>>

\* The steps of a script run once it has begun.
Step(s) ==
    \/ GetUploadedFiles(s)
    \/ RemoveBlob(s)
    \/ DeleteRows(s)
    \/ CheckDuplicate(s)
    \/ FileExistsInSupabase(s)
    \/ UploadBlob(s)
    \/ StoreFileHash(s)
    \/ AnalyzeSection(s)
    \/ Finish(s)

\* One interaction at a time: a run begins only when no other is under way.
Next ==
    \E s \in Sessions :
        \/ Login(s, 1)
        \/ SignUp(s)
        \/ Logout(s)
        \/ Rerun(s, 1)
        \/ Step(s)

Spec == Init /\ [][Next]_vars

\* Two browser tabs of one logged-in owner, their runs interleaved call by
\* call.  The tabs are logged in (each by a Login run that found nothing
\* stored) and stay so.
InitRace ==
    /\ blobs = [p \in Paths |-> NoBlob]
    /\ filehashes = EmptyBag
    /\ user \in {[s \in Sessions |-> email] : email \in Owners}
    /\ pc = [s \in Sessions |-> "idle"]
    /\ run = [s \in Sessions |-> Blank]

RaceNext ==
    \E s \in Sessions :
        \/ Rerun(s, Cardinality(Sessions))
        \/ Step(s)

SpecRace == InitRace /\ [][RaceNext]_vars

\* ------------------------------------------------------------ properties

UploadFlow == {"file_exists", "storage_upload", "insert"}
Quiescent == \A s \in Sessions : pc[s] \in {"idle", "rendered"}
OwnRows(table, email) == {r \in DOMAIN table : r.email = email}
HasOwnHash(table, email, file_hash) ==
    \E r \in OwnRows(table, email) : r.file_hash = file_hash
Oversize(f) == f # NoFile /\ FileSize(f.content) > MAX_FILE_SIZE
\* Session s took the step.
Stepped(s) == pc'[s] # pc[s]
\* What an owner has stored: the blobs and the rows of that owner.
OwnerView(email) ==
    <<[n \in Names |-> blobs[file_path(email, n)]],
      [r \in OwnRows(filehashes, email) |-> filehashes[r]]>>

\* C1: whenever no interaction is under way, a blob exists at
\* resumes/{email}/{name} if and only if filehashes holds a row with that
\* (email, file_name).
C1_BlobIffRecord ==
    Quiescent =>
        \A email \in Owners, n \in Names :
            (blobs[file_path(email, n)] # NoBlob)
                <=> (MatchingRows(filehashes, n, email) # {})

\* C2: with one interaction at a time, no two rows of filehashes share owner
\* and fingerprint, and an upload whose fingerprint the owner has recorded is
\* reported as a duplicate and never reaches the blob write or the insert.
C2_UniquePerOwnerSequential ==
    /\ \A r \in DOMAIN filehashes :
          /\ filehashes[r] = 1
          /\ \A q \in DOMAIN filehashes :
                (q.email = r.email /\ q.file_hash = r.file_hash) => q = r
    /\ \A s \in Sessions :
          LET f == run[s].uploaded_file
              recorded == HasOwnHash(filehashes, user[s], hash_file(f.content))
          IN  /\ (pc[s] \in UploadFlow) => ~recorded
              /\ (pc[s] = "analysis" /\ f # NoFile /\ recorded)
                    => "duplicate" \in run[s].msgs

\* C2's case: an upload was reported as a duplicate of the owner's own row.
C2_DuplicateRejected ==
    \E s \in Sessions :
        /\ pc[s] = "analysis"
        /\ "duplicate" \in run[s].msgs
        /\ HasOwnHash(filehashes, user[s], hash_file(run[s].uploaded_file.content))

\* C3: right after the duplicate check of an upload, the check has answered
\* true if and only if the table holds a row with exactly the uploading
\* owner and the file's fingerprint.
C3_CheckIsPerOwner ==
    \A s \in Sessions :
        LET f == run[s].uploaded_file
        IN  (pc[s] \in {"analysis", "file_exists"} /\ f # NoFile)
               => (("duplicate" \in run[s].msgs)
                      <=> HasOwnHash(filehashes, user[s], hash_file(f.content)))

\* C4: an upload larger than MAX_FILE_SIZE is rejected with a size error
\* before the upload's remote calls, and nothing of it is ever stored: no
\* blob and no row carries an oversize content.
C4_OversizeRejected ==
    /\ \A s \in Sessions :
          Oversize(run[s].uploaded_file)
             => ("size_error" \in run[s].msgs /\ pc[s] \notin UploadFlow)
    /\ \A p \in Paths : blobs[p] # NoBlob => FileSize(blobs[p]) <= MAX_FILE_SIZE
    /\ \A r \in DOMAIN filehashes, c \in Contents :
          r.file_hash = hash_file(c) => FileSize(c) <= MAX_FILE_SIZE

\* C5: an upload under a name the owner already has stored changes neither
\* the bucket nor the table.
C5_SameNameIsNoOp ==
    [][\A s \in Sessions :
          LET f == run[s].uploaded_file
          IN  ( /\ Stepped(s)
                /\ pc[s] \in UploadFlow
                /\ blobs[file_path(user[s], f.name)] # NoBlob
                /\ "uploaded" \notin run[s].msgs )
              => (blobs' = blobs /\ filehashes' = filehashes)]_vars

C7_OwnerIsolation ==
    /\ [][\A email \in Owners :
             OwnerView(email)' # OwnerView(email)
                => \E s \in Sessions : Stepped(s) /\ user[s] = email]_vars
    /\ [](\A s \in Sessions :
             LET f == run[s].uploaded_file
             IN  (pc[s] \in {"analysis", "file_exists"} /\ f # NoFile)
                    => (("duplicate" \in run[s].msgs)
                           <=> file_hash_exists(
                                  [r \in OwnRows(filehashes, user[s]) |-> filehashes[r]],
                                  hash_file(f.content))))

\* C8: no remote failure leaves the script as an uncaught exception, and a
\* session that is logged in when a run begins is logged in when it ends.
C8_FailuresCaught ==
    \A s \in Sessions :
        /\ "fault" \notin run[s].msgs
        /\ pc[s] # "idle" => user[s] # NoUser

C10_DuplicatesOnlyByRace ==
    \A c \in Contents :
        HashCount(filehashes, hash_file(c))
          + Cardinality({s \in Sessions :
                            /\ pc[s] \in UploadFlow
                            /\ run[s].uploaded_file.content = c})
          <= Cardinality(Sessions)

\* C10's case: two rows with the same owner and the same fingerprint.
C10_TwoRowsSameOwnerAndHash ==
    \E r \in DOMAIN filehashes :
        \/ filehashes[r] >= 2
        \/ \E q \in DOMAIN filehashes :
              q # r /\ q.email = r.email /\ q.file_hash = r.file_hash
====
